---- MODULE Spec2Model ----
(***************************************************************************)
(* Gym member management (src/GYM/gym.py): the three CSV tables, the       *)
(* register / update / delete / mark-entry / mark-exit / reset handlers,   *)
(* the face scan of the attendance handlers taken one iteration at a time, *)
(* and two sessions running the register handler concurrently.             *)
(*                                                                         *)
(* A table is held as read_csv returns it: Mobile and the attendance ID    *)
(* are integers, an empty ExitTime cell is NaN.  Distances are in tenths.  *)
(***************************************************************************)
EXTENDS Integers, Sequences, FiniteSets, TLC

VARIABLES
    members_csv,          \* members.csv: [header, rows]
    attendance_csv,       \* attendance.csv: [header, rows]
    deleted_members_csv,  \* deleted_members.csv: [header, rows]
    today,                \* the day datetime.now() falls on
    out,                  \* the message the last handler displayed
    probe_results,        \* scan: DeepFace's result for each member, in order
    scan_i,               \* scan: members iterated so far
    matched_row,          \* scan: index of the best row so far, 0 for None
    best_distance,        \* scan: best distance so far
    verdict,              \* scan: the branch taken after the loop
    menu,                 \* scan: the page whose handler is running
    sess                  \* race: each session's position in the register handler

tables == <<members_csv, attendance_csv, deleted_members_csv>>
mainVars == <<members_csv, attendance_csv, deleted_members_csv, today, out>>
scanVars == <<probe_results, scan_i, matched_row, best_distance, verdict, menu>>
vars == <<members_csv, attendance_csv, deleted_members_csv, today, out,
          probe_results, scan_i, matched_row, best_distance, verdict, menu, sess>>

\* ------------------------------------------------------------------ bounds

MaxMembers == 2
MaxDay == 2
MaxDeleted == 1

\* -------------------------------------------------------------- constants

\* best_distance starts at 1.0
InitialBestDistance == 10
\* result.get("distance", 1.0), and (False, 1.0) on an exception
DefaultDistance == 10

\* ---------------------------------------------------------------- strings

DigitChars == <<"0", "1", "2", "3", "4", "5", "6", "7", "8", "9">>

\* str(n) for n >= 0
RECURSIVE Str(_)
Str(n) ==
    IF n < 10 THEN <<DigitChars[n + 1]>>
    ELSE Str(n \div 10) \o <<DigitChars[(n % 10) + 1]>>

DigitValue(c) == CHOOSE d \in 0..9 : DigitChars[d + 1] = c

\* int(s), and read_csv's reading of an all-digit cell
RECURSIVE ParseInt(_)
ParseInt(s) ==
    IF s = <<>> THEN 0
    ELSE ParseInt(SubSeq(s, 1, Len(s) - 1)) * 10 + DigitValue(s[Len(s)])

\* name.replace(' ', '_')
ReplaceSpaces(name) ==
    [i \in DOMAIN name |-> IF name[i] = " " THEN "_" ELSE name[i]]

\* f"member_images/{new_id}_{name.replace(' ','_')}.jpg"
ImagePathOf(new_id, name) ==
    <<"member_images/">> \o Str(new_id) \o <<"_">> \o ReplaceSpaces(name) \o <<".jpg">>

Pad2(s) == IF Len(s) < 2 THEN <<"0">> \o s ELSE s

\* now.strftime("%Y-%m-%d"), the model's days being those of January 2024
DateStr(day) == <<"2024-01-">> \o Pad2(Str(day))

\* now.strftime("%H:%M:%S") at the time of day an operation runs
Times == {"09:00:00"}

NaN == "NaN"

\* ------------------------------------------------------------------ files

\* pd.DataFrame().to_csv(f, index=False): a file with no header line
BlankFile == [header |-> FALSE, rows |-> <<>>]

\* df.to_csv(f, index=False) of a frame that has columns
SavedFile(df) == [header |-> TRUE, rows |-> df]

\* read_csv raises EmptyDataError on a file with no header; caught here
load_members(f) == IF f.header THEN f.rows ELSE <<>>

save_members(df) == SavedFile(df)

load_attendance(f) == IF f.header THEN f.rows ELSE <<>>

save_attendance(df) == SavedFile(df)

\* -------------------------------------------------------------- form input

NameAnn == <<"A", "n">>
NameBob == <<"B", " ", "L">>

FormAnn == [name |-> NameAnn, email |-> "ann@x.org", mobile |-> <<"9", "1">>,
            membership |-> "Monthly", fee |-> 500, photo |-> TRUE]
FormBob == [name |-> NameBob, email |-> "bob@x.org", mobile |-> <<"0", "7">>,
            membership |-> "Yearly", fee |-> 0, photo |-> TRUE]

ValidForms == {FormAnn, FormBob}

\* The forms Register is submitted with where attendance is taken too: a
\* complete one, one with no name and one with no photo.
RegisterForms ==
    {FormAnn, [FormAnn EXCEPT !.name = <<>>], [FormAnn EXCEPT !.photo = FALSE]}

\* The forms Register is submitted with in the registry alone.
RegistryForms ==
    ValidForms \cup {[FormAnn EXCEPT !.name = <<>>], [FormBob EXCEPT !.photo = FALSE]}

\* The form Update is submitted with.
UpdateForms == {FormBob}

\* all([name, email, mobile, membership, photo])
AllFilled(f) ==
    /\ f.name # <<>>
    /\ f.email # ""
    /\ f.mobile # <<>>
    /\ f.membership # ""
    /\ f.photo

\* ---------------------------------------------------------------- display

\* A faulty variant of Fail: the handler that stops writes back the empty selection it
\* had filtered the attendance frame down to.
FailAfterSaving(msg) ==
    /\ out' = msg
    /\ attendance_csv' = SavedFile(<<>>)
    /\ UNCHANGED <<members_csv, deleted_members_csv>>

\* st.warning / st.error of a handler that stops there: nothing is saved
Fail(msg) ==
    /\ out' = msg
    /\ UNCHANGED tables

\* ----------------------------------------------------------------- members

IDs(rows) == {rows[i].ID : i \in DOMAIN rows}

\* A faulty variant of NewId: the id counts from the row about to be added.
NewIdOffByOne(members) == Len(members) + 2

\* len(members) + 1 if not members.empty else 1
NewId(members) == IF members # <<>> THEN Len(members) + 1 ELSE 1

\* the row of new_data, as it reads back from members.csv
NewMemberRow(members, f) ==
    [ID |-> NewId(members), Name |-> f.name, Email |-> f.email,
     Mobile |-> ParseInt(f.mobile), Membership |-> f.membership, Fee |-> f.fee,
     ImagePath |-> ImagePathOf(NewId(members), f.name)]

\* pd.concat([members, new_data], ignore_index=True)
ConcatMember(members, row) == Append(members, row)

Register(f) ==
    /\ IF ~AllFilled(f)
       THEN Fail("Please fill all fields and capture image.")
       ELSE LET members == load_members(members_csv)
                row == NewMemberRow(members, f)
            IN  /\ Len(members) < MaxMembers
                /\ members_csv' = save_members(ConcatMember(members, row))
                /\ out' = "Member Registered!"
                /\ UNCHANGED <<attendance_csv, deleted_members_csv>>
    /\ UNCHANGED <<today, scanVars, sess>>

\* members.loc[members["ID"] == int(selected_id), [...]] = [name,email,mobile,membership,fee]
UpdatedRows(members, selected_id, f) ==
    [i \in DOMAIN members |->
        IF members[i].ID = ParseInt(selected_id)
        THEN [members[i] EXCEPT !.Name = f.name, !.Email = f.email,
                                !.Mobile = ParseInt(f.mobile),
                                !.Membership = f.membership, !.Fee = f.fee]
        ELSE members[i]]

Update(selected_id, f) ==
    LET members == load_members(members_csv)
    IN  /\ members # <<>>
        /\ selected_id \in {Str(i) : i \in IDs(members)}
        /\ members_csv' = save_members(UpdatedRows(members, selected_id, f))
        /\ out' = "Member updated successfully."
        /\ UNCHANGED <<attendance_csv, deleted_members_csv, today, scanVars, sess>>

\* members[members["ID"] == int(selected_id)]
DelMember(members, selected_id) ==
    SelectSeq(members, LAMBDA r : r.ID = ParseInt(selected_id))

\* members[members["ID"] != int(selected_id)]
KeptMembers(members, selected_id) ==
    SelectSeq(members, LAMBDA r : r.ID # ParseInt(selected_id))

\* The archive is read with no try/except: on a file with no header read_csv
\* raises EmptyDataError after members.csv was already rewritten.
Delete(selected_id) ==
    LET members == load_members(members_csv)
        deleted == DelMember(members, selected_id)
    IN  /\ members # <<>>
        /\ selected_id \in {Str(i) : i \in IDs(members)}
        /\ Len(deleted_members_csv.rows) < MaxDeleted
        /\ members_csv' = save_members(KeptMembers(members, selected_id))
        /\ IF deleted = <<>>
           THEN /\ UNCHANGED deleted_members_csv
                /\ out' = "Member deleted successfully."
           ELSE IF ~deleted_members_csv.header
           THEN /\ UNCHANGED deleted_members_csv
                /\ out' = "EmptyDataError"
           ELSE /\ deleted_members_csv' = SavedFile(deleted_members_csv.rows \o deleted)
                /\ out' = "Member deleted successfully."
        /\ UNCHANGED <<attendance_csv, today, scanVars, sess>>

ResetDB ==
    /\ members_csv' = BlankFile
    /\ attendance_csv' = BlankFile
    /\ deleted_members_csv' = BlankFile
    /\ out' = "All data reset successfully!"
    /\ UNCHANGED <<today, scanVars, sess>>

\* ------------------------------------------------------------- face match

\* What DeepFace.verify does for one pair of images: it raises, or returns a
\* result with "verified" and, normally, "distance".
DeepFaceResults ==
    {[exc |-> TRUE],
     [verified |-> FALSE, distance |-> 2],
     [verified |-> TRUE, distance |-> 2],
     [verified |-> TRUE, distance |-> 5],
     [verified |-> TRUE, distance |-> 12],
     [verified |-> TRUE]}

\* The results the attendance handlers are run with
ProbeResults ==
    {[exc |-> TRUE],
     [verified |-> TRUE, distance |-> 2],
     [verified |-> TRUE, distance |-> 5]}

\* (match, dist) of try_verify_faces
try_verify_faces(result) ==
    IF "exc" \in DOMAIN result
    THEN [match |-> FALSE, dist |-> DefaultDistance]
    ELSE [match |-> result.verified,
          dist |-> IF "distance" \in DOMAIN result THEN result.distance
                   ELSE DefaultDistance]

\* A faulty variant of ScanStep: dist <= best_distance.
ScanStepLte(acc, i, v) ==
    IF v.match /\ v.dist <= acc.best_distance
    THEN [matched_row |-> i, best_distance |-> v.dist]
    ELSE acc

\* A faulty variant of ScanStep: the match flag is not looked at.
ScanStepAnyResult(acc, i, v) ==
    IF v.dist < acc.best_distance
    THEN [matched_row |-> i, best_distance |-> v.dist]
    ELSE acc

\* One iteration: if match and dist < best_distance: matched_row, best_distance = row, dist
ScanStep(acc, i, v) ==
    IF v.match /\ v.dist < acc.best_distance
    THEN [matched_row |-> i, best_distance |-> v.dist]
    ELSE acc

RECURSIVE ScanFrom(_, _, _)
ScanFrom(results, i, acc) ==
    IF i > Len(results) THEN acc
    ELSE ScanFrom(results, i + 1, ScanStep(acc, i, try_verify_faces(results[i])))

\* The whole loop over members.iterrows(); matched_row 0 is None
Scan(results) ==
    ScanFrom(results, 1, [matched_row |-> 0, best_distance |-> InitialBestDistance])

\* if matched_row is not None: (the attendance step) else: st.error(...)
AfterScan(row) ==
    IF row # 0 THEN "attendance" ELSE "No matching member found."

ImagePaths(members) == {members[i].ImagePath : i \in DOMAIN members}

\* DeepFace's results for the rows in order, given its result for each image
ResultsFor(members, byImage) == [i \in DOMAIN members |-> byImage[members[i].ImagePath]]

\* -------------------------------------------------------------- attendance

\* (attendance["ID"].astype(str) == idstr) & (attendance["Date"] == today)
SameMemberToday(r, idstr, date) == Str(r.ID) = idstr /\ r.Date = date

\* attendance["ExitTime"].isna() | (attendance["ExitTime"] == "")
IsOpen(r) == r.ExitTime = NaN \/ r.ExitTime = ""

\* new_entry, as it reads back from attendance.csv
NewEntry(idstr, name, date, time) ==
    [ID |-> ParseInt(idstr), Name |-> name, Date |-> date, EntryTime |-> time,
     ExitTime |-> NaN, Status |-> "Present"]

\* pd.concat([attendance, pd.DataFrame([new_entry])], ignore_index=True)
ConcatEntry(attendance, entry) == Append(attendance, entry)

\* A faulty variant of EntryExists: only a record still open counts.
EntryExistsOpenOnly(attendance, idstr, date) ==
    \E i \in DOMAIN attendance :
        SameMemberToday(attendance[i], idstr, date) /\ IsOpen(attendance[i])

\* not exists.empty
EntryExists(attendance, idstr, date) ==
    \E i \in DOMAIN attendance : SameMemberToday(attendance[i], idstr, date)

\* The attendance step of mark entry, for the row the scan chose
EntryStep(row, time) ==
    LET attendance == load_attendance(attendance_csv)
        idstr == Str(row.ID)
    IN  IF EntryExists(attendance, idstr, DateStr(today))
        THEN Fail("Entry already marked today.")
        ELSE /\ attendance_csv' = save_attendance(ConcatEntry(attendance,
                    NewEntry(idstr, row.Name, DateStr(today), time)))
             /\ out' = "Entry marked"
             /\ UNCHANGED <<members_csv, deleted_members_csv>>

MarkEntry(byImage, time) ==
    LET members == load_members(members_csv)
        best == Scan(ResultsFor(members, byImage))
    IN  /\ IF members = <<>>
           THEN Fail("No members registered.")
           ELSE IF AfterScan(best.matched_row) # "attendance"
           THEN Fail(AfterScan(best.matched_row))
           ELSE EntryStep(members[best.matched_row], time)
        /\ UNCHANGED <<today, scanVars, sess>>

\* A faulty variant of OpenRows: the mask forgets the date.
OpenRowsAnyDay(attendance, idstr, date) ==
    {i \in DOMAIN attendance : Str(attendance[i].ID) = idstr /\ IsOpen(attendance[i])}

\* open_rows.index: the rows of (idstr, today) with no exit time
OpenRows(attendance, idstr, date) ==
    {i \in DOMAIN attendance :
        SameMemberToday(attendance[i], idstr, date) /\ IsOpen(attendance[i])}

\* open_rows.index[0]
FirstOpen(attendance, idstr, date) ==
    CHOOSE i \in OpenRows(attendance, idstr, date) :
        \A j \in OpenRows(attendance, idstr, date) : i <= j

\* A faulty variant of ExitRow: the status is left as it was.
ExitRowKeepsStatus(attendance, idx, time) ==
    [attendance EXCEPT ![idx] = [@ EXCEPT !.ExitTime = time]]

\* attendance.at[idx, "ExitTime"] = time; attendance.at[idx, "Status"] = "Exited"
ExitRow(attendance, idx, time) ==
    [attendance EXCEPT ![idx] = [@ EXCEPT !.ExitTime = time, !.Status = "Exited"]]

\* The attendance step of mark exit, for the row the scan chose
ExitStep(row, time) ==
    LET attendance == load_attendance(attendance_csv)
        idstr == Str(row.ID)
    IN  IF OpenRows(attendance, idstr, DateStr(today)) = {}
        THEN Fail("No open entry found for today.")
        ELSE /\ attendance_csv' = save_attendance(ExitRow(attendance,
                    FirstOpen(attendance, idstr, DateStr(today)), time))
             /\ out' = "Exit marked"
             /\ UNCHANGED <<members_csv, deleted_members_csv>>

MarkExit(byImage, time) ==
    LET members == load_members(members_csv)
        best == Scan(ResultsFor(members, byImage))
    IN  /\ IF members = <<>>
           THEN Fail("No members registered.")
           ELSE IF AfterScan(best.matched_row) # "attendance"
           THEN Fail(AfterScan(best.matched_row))
           ELSE ExitStep(members[best.matched_row], time)
        /\ UNCHANGED <<today, scanVars, sess>>

\* datetime.now() passes midnight
NextDay ==
    /\ today < MaxDay
    /\ today' = today + 1
    /\ UNCHANGED <<tables, out, scanVars, sess>>

\* ---------------------------------------------------------- specification

Sessions == {"s1", "s2"}

IdleSession == [pc |-> "idle", members |-> <<>>, row |-> <<>>, msg |-> "", id |-> 0]

ScanIdle ==
    /\ probe_results = <<>>
    /\ scan_i = 0
    /\ matched_row = 0
    /\ best_distance = InitialBestDistance
    /\ verdict = ""
    /\ menu = ""

\* The files as the start-up code leaves them in an empty directory
Init ==
    /\ members_csv = BlankFile
    /\ attendance_csv = BlankFile
    /\ deleted_members_csv = BlankFile
    /\ today = 1
    /\ out = ""
    /\ ScanIdle
    /\ sess = [s \in Sessions |-> IdleSession]

SelectableIds == {Str(i) : i \in 1..MaxMembers}

ProbeOutcomes == [ImagePaths(load_members(members_csv)) -> ProbeResults]

Next ==
    \/ \E f \in RegisterForms : Register(f)
    \/ \E id \in SelectableIds, f \in UpdateForms : Update(id, f)
    \/ \E id \in SelectableIds : Delete(id)
    \/ \E byImage \in ProbeOutcomes, time \in Times : MarkEntry(byImage, time)
    \/ \E byImage \in ProbeOutcomes, time \in Times : MarkExit(byImage, time)
    \/ ResetDB
    \/ NextDay

Spec == Init /\ [][Next]_vars

\* The member registry alone, started in a directory that may already hold
\* an archive file with its header (the start-up code keeps existing files).
InitRegistry ==
    /\ members_csv = BlankFile
    /\ attendance_csv = BlankFile
    /\ deleted_members_csv \in {BlankFile, SavedFile(<<>>)}
    /\ today = 1
    /\ out = ""
    /\ ScanIdle
    /\ sess = [s \in Sessions |-> IdleSession]

NextRegistry ==
    \/ \E f \in RegistryForms : Register(f)
    \/ \E id \in SelectableIds, f \in UpdateForms : Update(id, f)
    \/ \E id \in SelectableIds : Delete(id)
    \/ ResetDB

SpecRegistry == InitRegistry /\ [][NextRegistry]_vars

\* ------------------------------------------------------- the scan, stepwise

\* The pages whose handlers scan the members table
EntryMenu == "Attendance - Entry"
ExitMenu == "Attendance - Exit"

\* The members table after the given forms were registered one after another
RECURSIVE RegisterAll(_, _)
RegisterAll(members, forms) ==
    IF forms = <<>>
    THEN members
    ELSE RegisterAll(ConcatMember(members, NewMemberRow(members, Head(forms))), Tail(forms))

\* members.csv as start-up or the registrations leave it
RegisteredFiles ==
    {BlankFile} \cup
    {save_members(RegisterAll(<<>>, fs)) :
        fs \in UNION {[1..n -> ValidForms] : n \in 1..MaxMembers}}

\* attendance.csv as start-up, an entry or an entry and exit of the first
\* member leave it on the first day
AttendanceFiles(members) ==
    {BlankFile} \cup
    IF members = <<>>
    THEN {}
    ELSE LET entry == NewEntry(Str(members[1].ID), members[1].Name, DateStr(1), "09:00:00")
         IN  {save_attendance(<<entry>>), save_attendance(ExitRow(<<entry>>, 1, "09:00:00"))}

\* mark_entry / mark_exit taken one step at a time: the photo is in, DeepFace
\* will answer probe_results for the rows of the members table, in order.
InitScan ==
    /\ members_csv \in RegisteredFiles
    /\ attendance_csv \in AttendanceFiles(load_members(members_csv))
    /\ deleted_members_csv = BlankFile
    /\ today = 1
    /\ out = ""
    /\ probe_results \in [1..Len(load_members(members_csv)) -> DeepFaceResults]
    /\ scan_i = 0
    /\ matched_row = 0
    /\ best_distance = InitialBestDistance
    /\ verdict = ""
    /\ menu \in {EntryMenu, ExitMenu}
    /\ sess = [s \in Sessions |-> IdleSession]

\* if members.empty: st.warning("No members registered.")
ScanEmpty ==
    /\ verdict = ""
    /\ load_members(members_csv) = <<>>
    /\ verdict' = "No members registered."
    /\ Fail("No members registered.")
    /\ UNCHANGED <<today, probe_results, scan_i, matched_row, best_distance, menu, sess>>

\* for i, (_, row) in enumerate(members.iterrows(), 1): ...
ScanIterate ==
    /\ verdict = ""
    /\ scan_i < Len(load_members(members_csv))
    /\ LET acc == ScanStep([matched_row |-> matched_row, best_distance |-> best_distance],
                           scan_i + 1, try_verify_faces(probe_results[scan_i + 1]))
       IN  /\ matched_row' = acc.matched_row
           /\ best_distance' = acc.best_distance
    /\ scan_i' = scan_i + 1
    /\ UNCHANGED <<mainVars, probe_results, verdict, menu, sess>>

\* if matched_row is not None: the attendance step of the page; else:
\* st.error("No matching member found.")
ScanFinish ==
    /\ verdict = ""
    /\ load_members(members_csv) # <<>>
    /\ scan_i = Len(load_members(members_csv))
    /\ verdict' = AfterScan(matched_row)
    /\ IF matched_row = 0
       THEN Fail("No matching member found.")
       ELSE \E time \in Times :
                IF menu = EntryMenu
                THEN EntryStep(load_members(members_csv)[matched_row], time)
                ELSE ExitStep(load_members(members_csv)[matched_row], time)
    /\ UNCHANGED <<today, probe_results, scan_i, matched_row, best_distance, menu, sess>>

NextScan == ScanEmpty \/ ScanIterate \/ ScanFinish

SpecScan == InitScan /\ [][NextScan]_vars

\* ------------------------------------------------ two sessions registering

\* Lines 101-115 of one session: the table is loaded and the new row built.
RaceLoad(s, f) ==
    /\ sess[s].pc \in {"idle", "done"}
    /\ AllFilled(f)
    /\ Len(load_members(members_csv)) < MaxMembers
    /\ sess' = [sess EXCEPT ![s] =
                   [pc |-> "loaded", members |-> load_members(members_csv),
                    row |-> NewMemberRow(load_members(members_csv), f),
                    msg |-> "", id |-> 0]]
    /\ UNCHANGED <<mainVars, scanVars>>

\* Lines 116-122 of that session: the table it loaded, plus its row, is saved.
RaceSave(s) ==
    /\ sess[s].pc = "loaded"
    /\ members_csv' = save_members(ConcatMember(sess[s].members, sess[s].row))
    /\ sess' = [sess EXCEPT ![s].pc = "done", ![s].msg = "Member Registered!",
                            ![s].id = sess[s].row.ID]
    /\ UNCHANGED <<attendance_csv, deleted_members_csv, today, out, scanVars>>

NextRace ==
    \/ \E s \in Sessions, f \in ValidForms : RaceLoad(s, f)
    \/ \E s \in Sessions : RaceSave(s)

SpecRace == Init /\ [][NextRace]_vars

\* ------------------------------------------------------------------ claims

Members == load_members(members_csv)
Attendance == load_attendance(attendance_csv)
Archive == deleted_members_csv.rows

\* C1: in every state reachable by register, update and delete the ids of
\* the live members are pairwise distinct, each registration having assigned
\* (number of live members) + 1.
C1_LiveIdsDistinct ==
    \A i, j \in DOMAIN Members : i # j => Members[i].ID # Members[j].ID

\* C2: delete(X.id) of a live member X appends exactly one record, X's
\* pre-delete record, to the archive and keeps what the archive held; no
\* record with X's id stays in the members table and every other member does.
C2_DeleteArchivesExactlyOne ==
    [][\A id \in SelectableIds : \A k \in DOMAIN Members :
          (Delete(id) /\ Members[k].ID = ParseInt(id)) =>
              /\ deleted_members_csv'.rows = Append(Archive, Members[k])
              /\ \A i \in DOMAIN Members' : Members'[i].ID # Members[k].ID
              /\ Members' = SelectSeq(Members, LAMBDA r : r # Members[k])]_vars

\* C9: update(id, ...) replaces the five fields of the one record with that
\* id and leaves its ID and ImagePath, every other member record, the
\* attendance table and the archive unchanged.
C9_UpdateChangesOneRecord ==
    [][\A id \in SelectableIds, f \in UpdateForms :
          Update(id, f) =>
              /\ \E k \in DOMAIN Members :
                    /\ Members[k].ID = ParseInt(id)
                    /\ Members' = [Members EXCEPT ![k] =
                          [ID |-> Members[k].ID, Name |-> f.name, Email |-> f.email,
                           Mobile |-> ParseInt(f.mobile), Membership |-> f.membership,
                           Fee |-> f.fee, ImagePath |-> Members[k].ImagePath]]
              /\ attendance_csv' = attendance_csv
              /\ deleted_members_csv' = deleted_members_csv]_vars

\* The member the scan picks for these DeepFace results, 0 for none
BestRow(byImage) == Scan(ResultsFor(Members, byImage)).matched_row

HasRecord(att, id, day) ==
    \E i \in DOMAIN att : att[i].ID = id /\ att[i].Date = DateStr(day)

HasOpenRecord(att, id, day) ==
    \E i \in DOMAIN att :
        att[i].ID = id /\ att[i].Date = DateStr(day) /\ att[i].ExitTime \in {NaN, ""}

\* C3: the attendance table holds at most one record per (member id, date):
\* a mark_entry whose best match already has a record for today, Present or
\* Exited, fails with "Entry already marked today." and appends nothing.
C3_OneRecordPerMemberDay ==
    /\ [](\A i, j \in DOMAIN Attendance :
            (Attendance[i].ID = Attendance[j].ID /\ Attendance[i].Date = Attendance[j].Date)
                => i = j)
    /\ [][\A byImage \in ProbeOutcomes, time \in Times :
            (/\ MarkEntry(byImage, time)
             /\ BestRow(byImage) # 0
             /\ HasRecord(Attendance, Members[BestRow(byImage)].ID, today))
            => (out' = "Entry already marked today." /\ attendance_csv' = attendance_csv)]_vars

C3_Witness ==
    /\ out = "Entry already marked today."
    /\ Len(Members) = 1
    /\ \E i \in DOMAIN Attendance :
          /\ Attendance[i].ID = Members[1].ID
          /\ Attendance[i].Date = DateStr(today)
          /\ Attendance[i].Status = "Exited"

\* C4: a successful mark_exit for M changes exactly one attendance record,
\* the open record of (M, today): it fills the exit time and sets the status
\* to Exited; every other record is unchanged and no open record of
\* (M, today) is left, so that the next mark_exit for M that day fails with
\* "No open entry found for today." and changes nothing.
C4_ExitClosesTheOpenRecord ==
    [][\A byImage \in ProbeOutcomes, time \in Times :
          (MarkExit(byImage, time) /\ BestRow(byImage) # 0) =>
              LET M == Members[BestRow(byImage)].ID
              IN  IF HasOpenRecord(Attendance, M, today)
                  THEN /\ out' = "Exit marked"
                       /\ \E k \in DOMAIN Attendance :
                             /\ Attendance[k].ID = M
                             /\ Attendance[k].Date = DateStr(today)
                             /\ Attendance[k].ExitTime \in {NaN, ""}
                             /\ Attendance' = [Attendance EXCEPT ![k] =
                                   [Attendance[k] EXCEPT !.ExitTime = time,
                                                         !.Status = "Exited"]]
                       /\ time # ""
                       /\ ~HasOpenRecord(Attendance', M, today)
                  ELSE /\ out' = "No open entry found for today."
                       /\ UNCHANGED tables]_vars

C4_Witness ==
    /\ out = "No open entry found for today."
    /\ Len(Members) = 1
    /\ \E i \in DOMAIN Attendance :
          /\ Attendance[i].ID = Members[1].ID
          /\ Attendance[i].Date = DateStr(today)
          /\ Attendance[i].Status = "Exited"
          /\ Attendance[i].ExitTime \in Times

FailedRegister ==
    \E f \in RegisterForms :
        Register(f) /\ out' = "Please fill all fields and capture image."

AttendanceFailures ==
    {"No members registered.", "No matching member found.",
     "Entry already marked today.", "No open entry found for today."}

FailedAttendance ==
    \E byImage \in ProbeOutcomes, time \in Times :
        /\ MarkEntry(byImage, time) \/ MarkExit(byImage, time)
        /\ out' \in AttendanceFailures

\* C7: a failed operation (register with a missing field or photo, mark_entry
\* or mark_exit on an empty members table or with no matching member,
\* mark_entry with a record for today, mark_exit with no open record for
\* today) leaves the members, attendance and archive tables as they were.
C7_FailuresChangeNothing ==
    [][(FailedRegister \/ FailedAttendance) => UNCHANGED tables]_vars

C7_Witness ==
    /\ out = "Please fill all fields and capture image."
    /\ Members # <<>>
    /\ Attendance # <<>>

Statuses(att, id, day) ==
    {att[i].Status : i \in {k \in DOMAIN att : att[k].ID = id /\ att[k].Date = DateStr(day)}}

RecordsOf(att, id, day) ==
    SelectSeq(att, LAMBDA r : r.ID = id /\ r.Date = DateStr(day))

\* The records of a (member id, date) stay as they are or move one status on
StatusMovesForward ==
    \A id \in 1..MaxMembers, day \in 1..MaxDay :
        LET before == Statuses(Attendance, id, day)
            after == Statuses(Attendance', id, day)
        IN  \/ RecordsOf(Attendance', id, day) = RecordsOf(Attendance, id, day)
            \/ before = {} /\ after = {"Present"} /\ out' = "Entry marked"
                 /\ day = today /\ Len(RecordsOf(Attendance', id, day)) = 1
            \/ before = {"Present"} /\ after = {"Exited"} /\ out' = "Exit marked"
                 /\ day = today /\ Len(RecordsOf(Attendance', id, day)) = 1

\* A record is Present or Exited, and Exited exactly when it has an exit time
ExitedIffExitTime ==
    \A i \in DOMAIN Attendance :
        /\ Attendance[i].Status \in {"Present", "Exited"}
        /\ Attendance[i].Status = "Exited" <=> Attendance[i].ExitTime \notin {NaN, ""}

\* C8 as stated: per (member id, date) the status only ever moves NoRecord ->
\* Present, on a successful mark_entry, and Present -> Exited, on a
\* successful mark_exit; an Exited record is never changed or joined by
\* another record that day, and a record is Exited exactly when its exit time
\* is not empty.
C8_StatusOnlyEverMovesForward ==
    /\ []ExitedIffExitTime
    /\ [][StatusMovesForward]_vars

\* C8 as amended: the same, for every operation but Reset DB, which empties
\* the attendance table and so returns every (member id, date) to NoRecord.
C8_StatusOnlyMovesForward ==
    /\ []ExitedIffExitTime
    /\ [][ResetDB \/ StatusMovesForward]_vars

C8_Witness ==
    /\ out = "Exit marked"
    /\ \E i \in DOMAIN Attendance :
          /\ Attendance[i].Status = "Exited"
          /\ Attendance[i].Date = DateStr(today)
          /\ Attendance[i].ExitTime \in Times

\* (matched, distance) of each member, in enumeration order
Verdicts == [i \in DOMAIN probe_results |-> try_verify_faces(probe_results[i])]

MatchedRows == {i \in DOMAIN probe_results : Verdicts[i].match}

MatchedBelowOne == {i \in MatchedRows : Verdicts[i].dist < InitialBestDistance}

\* i is the first row achieving the minimum distance among the matched rows
IsFirstMin(i) ==
    /\ i \in MatchedRows
    /\ \A j \in MatchedRows :
          \/ Verdicts[i].dist < Verdicts[j].dist
          \/ Verdicts[i].dist = Verdicts[j].dist /\ i <= j

\* C5 as stated: for every enumeration order and every (matched, distance)
\* outputs the member the scan chooses is the first one achieving the
\* minimum distance among all candidates with matched = true.
C5_ChosenIsFirstMinOfMatched ==
    (verdict # "" /\ MatchedRows # {}) => IsFirstMin(matched_row)

\* C5 as amended: the member the scan chooses is the first one achieving the
\* minimum distance among the candidates with matched = true when that
\* minimum is below 1.0, a later equal distance never replacing an earlier
\* one; when no matched candidate is below 1.0 the scan chooses no member.
C5_ChosenIsFirstMinBelowOne ==
    verdict # "" =>
        IF MatchedBelowOne # {} THEN IsFirstMin(matched_row) ELSE matched_row = 0

C5_Witness ==
    /\ verdict = "attendance"
    /\ \E i, j \in MatchedRows :
          /\ i < j
          /\ Verdicts[i].dist = Verdicts[j].dist
          /\ matched_row = i

\* C6 as stated: with members registered, the handler fails with "No
\* matching member found." exactly when no member reports matched = true;
\* with a match at any distance a matching member is selected and the
\* attendance step is taken.
C6_NoMatchIffNoneMatched ==
    (verdict # "" /\ probe_results # <<>>) =>
        /\ verdict = "No matching member found." <=> MatchedRows = {}
        /\ MatchedRows # {} => (verdict = "attendance" /\ matched_row \in MatchedRows)

\* What the attendance step of either page displays
AttendanceStepMessages ==
    {"Entry marked", "Entry already marked today.",
     "Exit marked", "No open entry found for today."}

\* C6 as amended: with members registered, the handler fails with "No
\* matching member found." exactly when no member reports matched = true
\* at a distance below 1.0; otherwise such a member is selected and the
\* attendance step is taken, which displays one of its own messages.
C6_NoMatchIffNoneBelowOne ==
    (verdict # "" /\ probe_results # <<>>) =>
        /\ verdict = "No matching member found." <=> MatchedBelowOne = {}
        /\ out = "No matching member found." <=> MatchedBelowOne = {}
        /\ MatchedBelowOne # {} =>
              /\ verdict = "attendance"
              /\ matched_row \in MatchedBelowOne
              /\ out \in AttendanceStepMessages

C6_Witness ==
    /\ verdict = "No matching member found."
    /\ MatchedRows # {}
    /\ MatchedBelowOne = {}

\* C10: two sessions that both loaded the same members table and both
\* finished registering report success with the same id, and the table holds
\* what the last writer loaded plus its one row: the other row is lost.
C10_LastRegistrationWins ==
    \A s, t \in Sessions :
        (/\ s # t
         /\ sess[s].pc = "done"
         /\ sess[t].pc = "done"
         /\ sess[s].members = sess[t].members) =>
            /\ sess[s].msg = "Member Registered!"
            /\ sess[t].msg = "Member Registered!"
            /\ sess[s].id = sess[t].id
            /\ sess[s].id = Len(sess[s].members) + 1
            /\ Members \in {Append(sess[s].members, sess[s].row),
                            Append(sess[t].members, sess[t].row)}

C10_Witness ==
    \E s, t \in Sessions :
        /\ s # t
        /\ sess[s].pc = "done"
        /\ sess[t].pc = "done"
        /\ sess[s].members = sess[t].members
        /\ sess[s].id = sess[t].id
        /\ sess[s].row # sess[t].row
        /\ Members = Append(sess[t].members, sess[t].row)
        /\ \A i \in DOMAIN Members : Members[i] # sess[s].row

====
